---- MODULE Spec2Model ----
(***************************************************************************)
(* Model of src/model.rs (qoda-dev/lens): vertex layout descriptors,       *)
(* Model::load, Renderer::create_render_pipeline, the two renderers and    *)
(* the DrawModel protocol on a render pass.                                *)
(*                                                                         *)
(* Option<T> is a sequence of length 0 (None) or 1 (Some(x)).  A Range<u32>*)
(* a..b is the pair <<a, b>>.  f32 values are abstract integers.           *)
(***************************************************************************)
EXTENDS Integers, Sequences, FiniteSets, TLC

VARIABLES asset, loaded, renderer, pass, lastOp

vars == <<asset, loaded, renderer, pass, lastOp>>

(* ---------------------------- bounds ----------------------------------- *)
MaxParts == 2
MaxMats == 2
MaxTris == 1
MaxAux == 2

(* ---------------------------- helpers ---------------------------------- *)
None == <<>>
Some(x) == <<x>>
IsSome(o) == Len(o) = 1

(* ------------------------ vertex layout descriptors -------------------- *)
SizeOfF32 == 4

\* mem::size_of::<[f32; n]>()
SizeOfF32Array(n) == n * SizeOfF32

\* mem::size_of::<ModelVertex>(): repr(C), fields [f32;3], [f32;2], [f32;3]
SizeOfModelVertex == SizeOfF32Array(3) + SizeOfF32Array(2) + SizeOfF32Array(3)

\* mem::size_of::<InstanceRaw>(): repr(C), fields [[f32;4];4], [[f32;3];3]
SizeOfInstanceRaw == 4 * SizeOfF32Array(4) + 3 * SizeOfF32Array(3)

\* byte size of a wgpu::VertexFormat used by the descriptors
FormatSize(format) ==
    CASE format = "Float32x2" -> 2 * SizeOfF32
      [] format = "Float32x3" -> 3 * SizeOfF32
      [] format = "Float32x4" -> 4 * SizeOfF32

\* the f32 counts of the rows of a #[repr(C)] record, in declaration order
ModelVertexFields == <<3, 2, 3>>
InstanceRawFields == <<4, 4, 4, 4, 3, 3, 3>>

\* byte offset of the i-th row (1-based) of a record without padding
RECURSIVE FieldOffset(_, _)
FieldOffset(fields, i) ==
    IF i = 1 THEN 0 ELSE FieldOffset(fields, i - 1) + SizeOfF32Array(fields[i - 1])

VertexAttribute(offset, shader_location, format) ==
    [offset |-> offset, shader_location |-> shader_location, format |-> format]

ModelVertex_desc ==
    [array_stride |-> SizeOfModelVertex,
     step_mode    |-> "Vertex",
     attributes   |-> << VertexAttribute(0, 0, "Float32x3"),
                         VertexAttribute(SizeOfF32Array(3), 1, "Float32x2"),
                         VertexAttribute(SizeOfF32Array(5), 2, "Float32x3") >>]

InstanceRaw_desc_shifted ==
    [array_stride |-> SizeOfInstanceRaw,
     step_mode    |-> "Instance",
     attributes   |-> << VertexAttribute(0, 5, "Float32x4"),
                         VertexAttribute(SizeOfF32Array(4), 6, "Float32x4"),
                         VertexAttribute(SizeOfF32Array(8), 7, "Float32x4"),
                         VertexAttribute(SizeOfF32Array(12), 8, "Float32x4"),
                         VertexAttribute(SizeOfF32Array(16), 9, "Float32x3"),
                         VertexAttribute(SizeOfF32Array(20), 10, "Float32x3"),
                         VertexAttribute(SizeOfF32Array(24), 11, "Float32x3") >>]

InstanceRaw_desc ==
    [array_stride |-> SizeOfInstanceRaw,
     step_mode    |-> "Instance",
     attributes   |-> << VertexAttribute(0, 5, "Float32x4"),
                         VertexAttribute(SizeOfF32Array(4), 6, "Float32x4"),
                         VertexAttribute(SizeOfF32Array(8), 7, "Float32x4"),
                         VertexAttribute(SizeOfF32Array(12), 8, "Float32x4"),
                         VertexAttribute(SizeOfF32Array(16), 9, "Float32x3"),
                         VertexAttribute(SizeOfF32Array(19), 10, "Float32x3"),
                         VertexAttribute(SizeOfF32Array(22), 11, "Float32x3") >>]

(* ------------------------------ pipeline ------------------------------- *)
MaterialLayout == "material_bind_group_layout"
CameraLayout == "camera_bind_group_layout"
LightLayout == "light_bind_group_layout"

DEPTH_FORMAT == "Depth32Float"

BlendReplace == [src_factor |-> "One", dst_factor |-> "Zero", operation |-> "Add"]

\* the parts of the descriptor that are written as literals in the code
FixedPipelineState ==
    [label          |-> "Render Pipeline",
     vertex_entry   |-> "vs_main",
     fragment_entry |-> "fs_main",
     blend          |-> Some([alpha |-> BlendReplace, color |-> BlendReplace]),
     write_mask     |-> "ALL",
     primitive      |-> [topology           |-> "TriangleList",
                         strip_index_format |-> None,
                         front_face         |-> "Ccw",
                         cull_mode          |-> Some("Back"),
                         polygon_mode       |-> "Fill",
                         clamp_depth        |-> FALSE,
                         conservative       |-> FALSE],
     multisample    |-> [count |-> 1, mask |-> "!0",
                         alpha_to_coverage_enabled |-> FALSE]]

DepthStencilState(format) ==
    [format              |-> format,
     depth_write_enabled |-> TRUE,
     depth_compare       |-> "Less",
     stencil             |-> "default",
     bias                |-> "default"]

create_render_pipeline_always_depth(layout, color_format, depth_format, vertex_layouts, shader) ==
    [layout         |-> Some(layout),
     module         |-> shader,
     buffers        |-> vertex_layouts,
     target_format  |-> color_format,
     fixed          |-> FixedPipelineState,
     depth_stencil  |-> Some(DepthStencilState(
                                IF IsSome(depth_format) THEN depth_format[1]
                                                        ELSE DEPTH_FORMAT))]

create_render_pipeline(layout, color_format, depth_format, vertex_layouts, shader) ==
    [layout         |-> Some(layout),
     module         |-> shader,
     buffers        |-> vertex_layouts,
     target_format  |-> color_format,
     fixed          |-> FixedPipelineState,
     depth_stencil  |-> IF IsSome(depth_format)                  \* depth_format.map(..)
                        THEN Some(DepthStencilState(depth_format[1]))
                        ELSE None]

\* ModelRenderer::new_renderer: pipeline layout {material, camera, light}
ModelRenderer_new_renderer(model, config_format, camera_layout, light_layout, shader_file) ==
    [model           |-> Some(model),
     render_pipeline |->
        create_render_pipeline(
            [label |-> "Render Pipeline Layout",
             bind_group_layouts |-> <<model.material_layout, camera_layout, light_layout>>],
            config_format,
            Some(DEPTH_FORMAT),
            <<ModelVertex_desc, InstanceRaw_desc>>,
            [label |-> "Normal Shader", source |-> shader_file])]

\* MeshRenderer::new_renderer: pipeline layout {camera, light}
MeshRenderer_new_renderer(config_format, camera_layout, light_layout, shader_file) ==
    [model           |-> None,
     render_pipeline |->
        create_render_pipeline(
            [label |-> "Render Pipeline Layout",
             bind_group_layouts |-> <<camera_layout, light_layout>>],
            config_format,
            Some(DEPTH_FORMAT),
            <<ModelVertex_desc, InstanceRaw_desc>>,
            [label |-> "Normal Shader", source |-> shader_file])]

(* ------------------------------ Model::load ---------------------------- *)
\* texture files that exist next to the asset (texture::Texture::load succeeds)
TextureFiles == {"ok.png"}
TexturePaths == {"ok.png", "missing.png"}

\* texture::Texture::load(device, queue, path): Some(texture) or None (Err)
Texture_load(path) ==
    IF path \in TextureFiles
    THEN Some([view |-> path, sampler |-> path])
    ELSE None

\* device.create_bind_group for material number i over the shared layout
MaterialBindGroup(i, texture) ==
    [layout |-> MaterialLayout, resource |-> texture.view, id |-> i]

\* the body of `for mat in obj_materials`, for the i-th descriptor (1-based)
LoadMaterial(mats, i) ==
    LET diffuse_texture == Texture_load(mats[i].diffuse_texture)[1]
    IN  [name            |-> mats[i].name,
         diffuse_texture |-> diffuse_texture,
         bind_group      |-> MaterialBindGroup(i - 1, diffuse_texture)]

LoadMaterials(mats) == [i \in 1..Len(mats) |-> LoadMaterial(mats, i)]

\* number of iterations of `for i in 0..m.mesh.positions.len() / 3`
VertexCount(mesh) == Len(mesh.positions) \div 3

\* every slice index of the interleaving loop is in bounds (no panic)
InterleaveInBounds(mesh) ==
    \A i \in 0..(VertexCount(mesh) - 1) :
        /\ i * 2 + 1 < Len(mesh.texcoords)
        /\ i * 3 + 2 < Len(mesh.normals)

\* Rust slices are 0-based, TLA+ sequences 1-based
At(s, i) == s[i + 1]

Interleave_swapped(mesh) ==
    [k \in 1..VertexCount(mesh) |->
        LET i == k - 1
        IN  [position   |-> <<At(mesh.positions, i * 3), At(mesh.positions, i * 3 + 1),
                              At(mesh.positions, i * 3 + 2)>>,
             tex_coords |-> <<At(mesh.texcoords, i * 2 + 1), At(mesh.texcoords, i * 2)>>,
             normal     |-> <<At(mesh.normals, i * 3), At(mesh.normals, i * 3 + 1),
                              At(mesh.normals, i * 3 + 2)>>]]

Interleave(mesh) ==
    [k \in 1..VertexCount(mesh) |->
        LET i == k - 1
        IN  [position   |-> <<At(mesh.positions, i * 3), At(mesh.positions, i * 3 + 1),
                              At(mesh.positions, i * 3 + 2)>>,
             tex_coords |-> <<At(mesh.texcoords, i * 2), At(mesh.texcoords, i * 2 + 1)>>,
             normal     |-> <<At(mesh.normals, i * 3), At(mesh.normals, i * 3 + 1),
                              At(mesh.normals, i * 3 + 2)>>]]

\* device.create_buffer_init; `of` tells the buffer objects of a model apart
Buffer(usage, of, contents) == [usage |-> usage, of |-> of, contents |-> contents]

NumElements_triangles(indices) == Len(indices) \div 3

\* m.mesh.indices.len() as u32 (the cast is the identity below 2^32 indices)
NumElements(indices) == Len(indices)

\* m.mesh.material_id.unwrap_or(0)
MaterialIndex(material_id) ==
    IF IsSome(material_id) THEN material_id[1] ELSE 0

\* the body of `for m in obj_models`, for the k-th partition (1-based)
LoadMesh(models, k) ==
    LET m == models[k]
    IN  [geometry |-> [name          |-> m.name,
                       vertex_buffer |-> Buffer("VERTEX", k - 1, Interleave(m.mesh)),
                       index_buffer  |-> Buffer("INDEX", k - 1, m.mesh.indices),
                       num_elements  |-> NumElements(m.mesh.indices)],
         material |-> MaterialIndex(m.mesh.material_id)]

LoadMeshes(models) == [k \in 1..Len(models) |-> LoadMesh(models, k)]

Ok(model) == [outcome |-> "Ok", model |-> Some(model)]
Err == [outcome |-> "Err", model |-> None]
Panic == [outcome |-> "Panic", model |-> None]
NotLoaded == [outcome |-> "NotLoaded", model |-> None]

\* Model::load on the parser's answer `a` (tobj::load_obj) for the path
Model_load(a) ==
    IF ~a.parse_ok THEN Panic                                   \* .unwrap(), line 146
    ELSE IF ~a.materials_ok THEN Panic                          \* .unwrap(), line 148
    ELSE IF \E i \in 1..Len(a.materials) :
                ~IsSome(Texture_load(a.materials[i].diffuse_texture))
         THEN Panic                                             \* .unwrap(), line 187
    ELSE IF \E k \in 1..Len(a.models) : ~InterleaveInBounds(a.models[k].mesh)
         THEN Panic                                             \* slice index, 217-225
    ELSE Ok([meshes          |-> LoadMeshes(a.models),
             materials       |-> LoadMaterials(a.materials),
             material_layout |-> MaterialLayout])


(* ------------------------------ DrawModel ------------------------------ *)
\* render-pass commands recorded by the DrawModel methods
SetVertexBuffer(slot, buffer) == [cmd |-> "set_vertex_buffer", slot |-> slot, buffer |-> buffer]
SetIndexBuffer(buffer, format) == [cmd |-> "set_index_buffer", buffer |-> buffer, format |-> format]
SetBindGroup(index, group) == [cmd |-> "set_bind_group", index |-> index, group |-> group]
DrawIndexed(indices, base_vertex, instances) ==
    [cmd |-> "draw_indexed", indices |-> indices, base_vertex |-> base_vertex,
     instances |-> instances]

\* buffer.slice(..): a reference to the whole of a buffer object
BufferSlice(buffer) == [usage |-> buffer.usage, of |-> buffer.of, bounds |-> ".."]

\* `let mut offset = 0; if let Some(..) { .. offset += 1; }`
MaterialCmds(material_bind_group) ==
    IF IsSome(material_bind_group)
    THEN [cmds |-> <<SetBindGroup(0, material_bind_group[1])>>, offset |-> 1]
    ELSE [cmds |-> <<>>, offset |-> 0]

AuxSlot_no_offset(index, offset) == index

AuxSlot_plus_one(index, offset) == index + offset + 1

\* `index as u32 + offset`
AuxSlot(index, offset) == index + offset

\* bind_groups.iter().enumerate().for_each(..)
AuxCmds(bind_groups, offset) ==
    [i \in 1..Len(bind_groups) |-> SetBindGroup(AuxSlot(i - 1, offset), bind_groups[i])]

\* self.draw_indexed(0..mesh.geometry.num_elements, 0, instances)
DrawCmd(mesh, instances) ==
    DrawIndexed(<<0, mesh.geometry.num_elements>>, 0, instances)

\* draw_mesh_instanced: its arguments and the commands it records, in order
draw_mesh_instanced(mesh, material_bind_group, instances, bind_groups) ==
    LET material == MaterialCmds(material_bind_group)
    IN  [mesh                |-> mesh,
         material_bind_group |-> material_bind_group,
         instances           |-> instances,
         bind_groups         |-> bind_groups,
         cmds |-> <<SetVertexBuffer(0, BufferSlice(mesh.geometry.vertex_buffer)),
                    SetIndexBuffer(BufferSlice(mesh.geometry.index_buffer), "Uint32")>>
                  \o material.cmds
                  \o AuxCmds(bind_groups, material.offset)
                  \o <<DrawCmd(mesh, instances)>>]

\* draw_mesh: the calls of draw_mesh_instanced it makes
draw_mesh(mesh, material_bind_group, bind_groups) ==
    [calls    |-> <<draw_mesh_instanced(mesh, material_bind_group, <<0, 1>>, bind_groups)>>,
     panicked |-> FALSE]

MeshMaterial_first(model, mesh) == model.materials[1].bind_group

\* &model.materials[mesh.material].bind_group
MeshMaterial(model, mesh) == At(model.materials, mesh.material).bind_group

\* `for mesh in &model.meshes` from the j-th mesh on (1-based); the index
\* model.materials[mesh.material] panics when out of bounds
RECURSIVE DrawMeshesFrom(_, _, _, _)
DrawMeshesFrom(model, j, instances, bind_groups) ==
    IF j > Len(model.meshes) THEN [calls |-> <<>>, panicked |-> FALSE]
    ELSE LET mesh == model.meshes[j]
         IN  IF mesh.material >= Len(model.materials)
             THEN [calls |-> <<>>, panicked |-> TRUE]
             ELSE LET rest == DrawMeshesFrom(model, j + 1, instances, bind_groups)
                      call == draw_mesh_instanced(
                                  mesh,
                                  Some(MeshMaterial(model, mesh)),
                                  instances,
                                  bind_groups)
                  IN  [calls |-> <<call>> \o rest.calls, panicked |-> rest.panicked]

draw_model_instanced(model, instances, bind_groups) ==
    DrawMeshesFrom(model, 1, instances, bind_groups)

draw_model_empty_range(model, bind_groups) ==
    draw_model_instanced(model, <<0, 0>>, bind_groups)

draw_model(model, bind_groups) == draw_model_instanced(model, <<0, 1>>, bind_groups)

\* all commands of a sequence of draw_mesh_instanced calls, in order
RECURSIVE CallCmds(_)
CallCmds(calls) ==
    IF calls = <<>> THEN <<>> ELSE Head(calls).cmds \o CallCmds(Tail(calls))

(* ----------------------- the render pass's bindings -------------------- *)
\* bind-group slots of the pass; one more than a draw with MaxAux groups binds
Slots == 0..(MaxAux + 1)

EmptyPass ==
    [vertex_buffers |-> [s \in {0} |-> None],
     index_buffer   |-> None,
     bind_groups    |-> [s \in Slots |-> None]]

\* the effect of one recorded command on the pass's current bindings
ApplyCmd(p, c) ==
    CASE c.cmd = "set_vertex_buffer" ->
            [p EXCEPT !.vertex_buffers[c.slot] = Some(c.buffer)]
      [] c.cmd = "set_index_buffer" ->
            [p EXCEPT !.index_buffer = Some([buffer |-> c.buffer, format |-> c.format])]
      [] c.cmd = "set_bind_group" ->
            [p EXCEPT !.bind_groups[c.index] = Some(c.group)]
      [] c.cmd = "draw_indexed" -> p

RECURSIVE ApplyCmds(_, _)
ApplyCmds(p, cmds) ==
    IF cmds = <<>> THEN p ELSE ApplyCmds(ApplyCmd(p, Head(cmds)), Tail(cmds))

(* ------------------------------ inputs --------------------------------- *)
\* sequential coordinates, distinct per array and per partition
Floats(base, len) == [j \in 1..len |-> base + j]

\* the tobj mesh of partition k: t triangles over 3t vertices (triangulate,
\* single_index); `defect` drops the last texcoord or normal (an asset that
\* lacks them for some vertex)
MeshData(k, t, defect, material_id) ==
    [positions   |-> Floats(1000 * k + 100, 9 * t),
     texcoords   |-> Floats(1000 * k + 200,
                            IF defect = "short_texcoords" THEN 6 * t - 1 ELSE 6 * t),
     normals     |-> Floats(1000 * k + 300,
                            IF defect = "short_normals" THEN 9 * t - 1 ELSE 9 * t),
     indices     |-> [j \in 1..(3 * t) |-> j - 1],
     material_id |-> material_id]

Shapes ==
    {<<t, "none">> : t \in 0..MaxTris}
      \cup {<<MaxTris, d>> : d \in {"short_texcoords", "short_normals"}}

MaterialIds == {None} \cup {Some(i) : i \in 0..MaxMats}

\* well-formed partitions of 1 + (k % MaxTris) triangles, any material id
TrianglePartitionsAt(k) ==
    {[name |-> k, mesh |-> MeshData(k, 1 + (k % MaxTris), "none", id)] :
        id \in MaterialIds}

\* partitions of any shape, without a material id
ShapedPartitionsAt(k) ==
    {[name |-> k, mesh |-> MeshData(k, sh[1], sh[2], None)] : sh \in Shapes}

\* well-formed partitions whose material id is absent or names material k + 1
NextMaterialPartitionsAt(k) ==
    {[name |-> k, mesh |-> MeshData(k, 1 + (k % MaxTris), "none", id)] :
        id \in {None, Some(k + 1)}}

MaterialsAt(i) == {[name |-> i, diffuse_texture |-> t] : t \in TexturePaths}

LoadableMaterialsAt(i) == {[name |-> i, diffuse_texture |-> t] : t \in TextureFiles}

\* the k-th (0-based) element a parser can return in a list of the kind
ElementsAt(kind, k) ==
    CASE kind = "triangles" -> TrianglePartitionsAt(k)
      [] kind = "shapes" -> ShapedPartitionsAt(k)
      [] kind = "next_material" -> NextMaterialPartitionsAt(k)
      [] kind = "materials" -> MaterialsAt(k)
      [] kind = "loadable" -> LoadableMaterialsAt(k)

\* the lists of a kind of length <= n
RECURSIVE ListsUpTo(_, _)
ListsUpTo(kind, n) ==
    IF n = 0 THEN {<<>>}
    ELSE LET shorter == ListsUpTo(kind, n - 1)
         IN  shorter \cup {Append(s, x) : s \in {t \in shorter : Len(t) = n - 1},
                                          x \in ElementsAt(kind, n - 1)}

ParsedAsset(models, materials) ==
    [parse_ok |-> TRUE, materials_ok |-> TRUE, models |-> models, materials |-> materials]

\* tobj::load_obj returned Err
ParseError ==
    [parse_ok |-> FALSE, materials_ok |-> FALSE, models |-> <<>>, materials |-> <<>>]

\* tobj::load_obj returned (models, Err): the material library is missing
MaterialsError(models) ==
    [parse_ok |-> TRUE, materials_ok |-> FALSE, models |-> models, materials |-> <<>>]

\* what the parser can answer: any material ids and textures over well-formed
\* triangle lists, any shapes over loadable materials, and the two failures
Assets ==
    {ParsedAsset(ms, mats) : ms \in ListsUpTo("triangles", MaxParts),
                             mats \in ListsUpTo("materials", MaxMats)}
      \cup {ParsedAsset(ms, mats) : ms \in ListsUpTo("shapes", MaxParts),
                                    mats \in ListsUpTo("loadable", MaxMats)}
      \cup {MaterialsError(ms) : ms \in ListsUpTo("shapes", MaxParts)}
      \cup {ParseError}

\* assets that load: well-formed triangle lists, and no material or MaxMats
\* loadable ones
DrawAssets ==
    {ParsedAsset(ms, mats) :
        ms \in ListsUpTo("next_material", MaxParts),
        mats \in {m \in ListsUpTo("loadable", MaxMats) : Len(m) \in {0, MaxMats}}}

\* one triangle, one material
OneTriangleAsset ==
    ParsedAsset(<<[name |-> 0, mesh |-> MeshData(0, 1, "none", Some(0))]>>,
                <<[name |-> 0, diffuse_texture |-> "ok.png"]>>)

\* the caller's bind groups: camera, then light, then further ones
AuxGroup(i) ==
    [layout   |-> IF i = 0 THEN CameraLayout ELSE IF i = 1 THEN LightLayout ELSE "aux_layout",
     resource |-> "uniform_buffer",
     id       |-> i]

\* the auxiliary lists a caller passes: the first n of its bind groups
AuxLists == {[i \in 1..n |-> AuxGroup(i - 1)] : n \in 0..MaxAux}

InstanceRanges == {<<0, 1>>, <<1, 3>>}

ColorFormats == {"Bgra8UnormSrgb", "Rgba8UnormSrgb", "Rgba16Float"}
DepthFormats == {None, Some(DEPTH_FORMAT), Some("Depth24Plus")}
ShaderFiles == {"shader.wgsl", "light.wgsl"}
VertexLayoutLists == {<<>>, <<ModelVertex_desc>>, <<ModelVertex_desc, InstanceRaw_desc>>}
PipelineLayouts ==
    {[label |-> "Render Pipeline Layout", bind_group_layouts |-> ls] :
        ls \in {<<CameraLayout, LightLayout>>, <<MaterialLayout, CameraLayout, LightLayout>>}}

(* ------------------------------ state ---------------------------------- *)
NoRenderer ==
    [via |-> "none", color_format |-> "none", depth_format |-> None,
     model |-> None, render_pipeline |-> None]

NoOp ==
    [op |-> "none", mesh |-> None, material_bind_group |-> None, instances |-> <<0, 0>>,
     bind_groups |-> <<>>, calls |-> <<>>, panicked |-> FALSE]

Model == loaded.model[1]

(* ------------------------------ actions -------------------------------- *)
\* let model = Model::load(device, queue, path)
Load ==
    /\ loaded.outcome = "NotLoaded"
    /\ loaded' = Model_load(asset)
    /\ UNCHANGED <<asset, renderer, pass, lastOp>>

\* Renderer::create_render_pipeline called directly
CreateRenderPipeline ==
    \E layout \in PipelineLayouts, color_format \in ColorFormats,
       depth_format \in DepthFormats, vertex_layouts \in VertexLayoutLists,
       shader \in ShaderFiles :
        /\ renderer' =
             [via |-> "create_render_pipeline", color_format |-> color_format,
              depth_format |-> depth_format, model |-> None,
              render_pipeline |->
                 Some(create_render_pipeline(layout, color_format, depth_format,
                          vertex_layouts, [label |-> "Shader", source |-> shader]))]
        /\ UNCHANGED <<asset, loaded, pass, lastOp>>

NewModelRenderer ==
    /\ loaded.outcome = "Ok"
    /\ \E format \in ColorFormats, shader_file \in ShaderFiles :
         LET r == ModelRenderer_new_renderer(Model, format, CameraLayout, LightLayout,
                                             shader_file)
         IN  renderer' =
               [via |-> "ModelRenderer", color_format |-> format,
                depth_format |-> Some(DEPTH_FORMAT), model |-> r.model,
                render_pipeline |-> Some(r.render_pipeline)]
    /\ UNCHANGED <<asset, loaded, pass, lastOp>>

NewMeshRenderer ==
    /\ \E format \in ColorFormats, shader_file \in ShaderFiles :
         LET r == MeshRenderer_new_renderer(format, CameraLayout, LightLayout, shader_file)
         IN  renderer' =
               [via |-> "MeshRenderer", color_format |-> format,
                depth_format |-> Some(DEPTH_FORMAT), model |-> r.model,
                render_pipeline |-> Some(r.render_pipeline)]
    /\ UNCHANGED <<asset, loaded, pass, lastOp>>

\* a DrawModel method ran on the pass: its commands take effect in order
Record(op, mesh, material_bind_group, instances, bind_groups, result) ==
    /\ pass' = ApplyCmds(pass, CallCmds(result.calls))
    /\ lastOp' = [op |-> op, mesh |-> mesh, material_bind_group |-> material_bind_group,
                  instances |-> instances, bind_groups |-> bind_groups,
                  calls |-> result.calls, panicked |-> result.panicked]
    /\ UNCHANGED <<asset, loaded, renderer>>

CanDraw == loaded.outcome = "Ok" /\ ~lastOp.panicked

MaterialArgs == {None} \cup {Some(Model.materials[i].bind_group) : i \in 1..Len(Model.materials)}

DrawModel ==
    /\ CanDraw
    /\ \E bind_groups \in AuxLists :
         Record("draw_model", None, None, <<0, 1>>, bind_groups,
                draw_model(Model, bind_groups))

DrawModelInstanced ==
    /\ CanDraw
    /\ \E instances \in InstanceRanges, bind_groups \in AuxLists :
         Record("draw_model_instanced", None, None, instances, bind_groups,
                draw_model_instanced(Model, instances, bind_groups))

DrawMesh ==
    /\ CanDraw
    /\ \E j \in 1..Len(Model.meshes), material \in MaterialArgs, bind_groups \in AuxLists :
         Record("draw_mesh", Some(Model.meshes[j]), material, <<0, 1>>, bind_groups,
                draw_mesh(Model.meshes[j], material, bind_groups))

DrawMeshInstanced ==
    /\ CanDraw
    /\ \E j \in 1..Len(Model.meshes), material \in MaterialArgs,
          instances \in InstanceRanges, bind_groups \in AuxLists :
         Record("draw_mesh_instanced", Some(Model.meshes[j]), material, instances,
                bind_groups,
                [calls |-> <<draw_mesh_instanced(Model.meshes[j], material, instances,
                                                 bind_groups)>>,
                 panicked |-> FALSE])

(* --------------------------- specifications ---------------------------- *)
InitLoad ==
    /\ asset \in Assets
    /\ loaded = NotLoaded
    /\ renderer = NoRenderer
    /\ pass = EmptyPass
    /\ lastOp = NoOp

NextLoad == Load

SpecLoad == InitLoad /\ [][NextLoad]_vars

InitPipeline ==
    /\ asset = OneTriangleAsset
    /\ loaded = NotLoaded
    /\ renderer = NoRenderer
    /\ pass = EmptyPass
    /\ lastOp = NoOp

NextPipeline == Load \/ CreateRenderPipeline \/ NewModelRenderer \/ NewMeshRenderer

SpecPipeline == InitPipeline /\ [][NextPipeline]_vars

InitDraw ==
    /\ asset \in DrawAssets \cup {OneTriangleAsset}
    /\ loaded = Model_load(asset)
    /\ renderer = NoRenderer
    /\ pass = EmptyPass
    /\ lastOp = NoOp

NextDraw == DrawModel \/ DrawModelInstanced \/ DrawMesh \/ DrawMeshInstanced

SpecDraw == InitDraw /\ [][NextDraw]_vars

(* =============================== claims ================================ *)
Loaded == loaded.outcome # "NotLoaded"
LoadedOk == loaded.outcome = "Ok"

\* the parser's answer has a failure Model::load must report
LoadFails(a) ==
    \/ ~a.parse_ok
    \/ ~a.materials_ok
    \/ \E i \in 1..Len(a.materials) : a.materials[i].diffuse_texture \notin TextureFiles

\* positions, texcoords and normals have lengths 3n, 2n, 3n
WellFormed(mesh) ==
    \E n \in 0..Len(mesh.positions) :
        /\ Len(mesh.positions) = 3 * n
        /\ Len(mesh.texcoords) = 2 * n
        /\ Len(mesh.normals) = 3 * n

(* C2: in every Model returned by Model::load from an asset with at least  *)
(* one material, every mesh's material index is below the number of        *)
(* materials, a partition without material id gets index 0, and an asset   *)
(* with an out-of-range material id yields no Model.                       *)
C2_MaterialIndexInRange ==
    (Loaded /\ asset.parse_ok /\ asset.materials_ok /\ Len(asset.materials) >= 1) =>
        /\ LoadedOk =>
             \A k \in 1..Len(Model.meshes) :
                /\ Model.meshes[k].material < Len(Model.materials)
                /\ asset.models[k].mesh.material_id = None => Model.meshes[k].material = 0
        /\ (\E k \in 1..Len(asset.models) :
                /\ IsSome(asset.models[k].mesh.material_id)
                /\ asset.models[k].mesh.material_id[1] >= Len(asset.materials))
             => ~LoadedOk

(* C6: when parsing fails, the material list is missing or a texture fails *)
(* to load, Model::load returns the load failure (Err) to its caller and   *)
(* no Model.                                                               *)
C6_LoadFailureReturned ==
    (Loaded /\ LoadFails(asset)) => (loaded.outcome = "Err" /\ loaded.model = None)

(* C7: Model::load interleaves arrays of lengths 3n, 2n, 3n into exactly n *)
(* ModelVertex records, record i holding positions[3i..3i+3],              *)
(* texcoords[2i..2i+2], normals[3i..3i+3]; the meshes of the returned      *)
(* Model are in partition order and its materials in material order.       *)
C7_InterleaveAndOrder ==
    /\ (Loaded /\ ~LoadFails(asset)
          /\ \A k \in 1..Len(asset.models) : WellFormed(asset.models[k].mesh))
         => LoadedOk
    /\ LoadedOk =>
         /\ Len(Model.meshes) = Len(asset.models)
         /\ Len(Model.materials) = Len(asset.materials)
         /\ \A k \in 1..Len(asset.models) :
              LET src == asset.models[k].mesh
                  out == Model.meshes[k].geometry.vertex_buffer.contents
              IN  /\ Model.meshes[k].geometry.name = asset.models[k].name
                  /\ Model.meshes[k].geometry.index_buffer.contents = src.indices
                  /\ WellFormed(src) =>
                       /\ 3 * Len(out) = Len(src.positions)
                       /\ \A i \in 0..(Len(out) - 1) :
                            /\ out[i + 1].position =
                                 SubSeq(src.positions, 3 * i + 1, 3 * i + 3)
                            /\ out[i + 1].tex_coords =
                                 SubSeq(src.texcoords, 2 * i + 1, 2 * i + 2)
                            /\ out[i + 1].normal =
                                 SubSeq(src.normals, 3 * i + 1, 3 * i + 3)
         /\ \A i \in 1..Len(asset.materials) :
              /\ Model.materials[i].name = asset.materials[i].name
              /\ Model.materials[i].diffuse_texture.view = asset.materials[i].diffuse_texture

\* two meshes with vertices and two materials were loaded
C7_Witness ==
    /\ LoadedOk
    /\ Len(Model.meshes) = 2
    /\ Len(Model.materials) = 2
    /\ \A k \in 1..2 : Len(Model.meshes[k].geometry.vertex_buffer.contents) = 3

Built == IsSome(renderer.render_pipeline)
Pipeline == renderer.render_pipeline[1]

\* the attributes of layout `desc` lie where the rows of the record lie
MatchesRecord(desc, fields) ==
    /\ Len(desc.attributes) = Len(fields)
    /\ \A i \in 1..Len(fields) :
         /\ desc.attributes[i].offset = FieldOffset(fields, i)
         /\ FormatSize(desc.attributes[i].format) = 4 * fields[i]

\* the attributes are pairwise disjoint, inside the stride, and cover it
TilesStride(desc) ==
    LET a == desc.attributes
        end(i) == a[i].offset + FormatSize(a[i].format)
    IN  /\ \A i \in 1..Len(a) : a[i].offset >= 0 /\ end(i) <= desc.array_stride
        /\ \A i, j \in 1..Len(a) :
             i # j => (end(i) <= a[j].offset \/ end(j) <= a[i].offset)
        /\ \A b \in 0..(desc.array_stride - 1) :
             \E i \in 1..Len(a) : a[i].offset <= b /\ b < end(i)

Locations(desc) == {desc.attributes[i].shader_location : i \in 1..Len(desc.attributes)}

(* C8: in the pipeline of either renderer the ModelVertex layout has       *)
(* stride 32 and attributes at offsets 0, 12, 20 on locations 0, 1, 2; the *)
(* InstanceRaw layout has stride 100, per-instance step and locations 5 to *)
(* 11; each layout's attributes lie on the rows of its record, do not      *)
(* overlap, stay within the stride and cover it; no InstanceRaw location   *)
(* is in 0..4.                                                             *)
C8_VertexLayouts ==
    (Built /\ renderer.via \in {"ModelRenderer", "MeshRenderer"}) =>
        LET v == Pipeline.buffers[1]
            r == Pipeline.buffers[2]
        IN  /\ Len(Pipeline.buffers) = 2
            /\ v.array_stride = 32
            /\ v.step_mode = "Vertex"
            /\ [i \in 1..3 |-> v.attributes[i].offset] = <<0, 12, 20>>
            /\ [i \in 1..3 |-> v.attributes[i].shader_location] = <<0, 1, 2>>
            /\ MatchesRecord(v, ModelVertexFields)
            /\ TilesStride(v)
            /\ r.array_stride = 100
            /\ r.step_mode = "Instance"
            /\ [i \in 1..7 |-> r.attributes[i].shader_location] = <<5, 6, 7, 8, 9, 10, 11>>
            /\ MatchesRecord(r, InstanceRawFields)
            /\ TilesStride(r)
            /\ Locations(r) \cap (0..4) = {}
            /\ Locations(r) \cap Locations(v) = {}

\* a model renderer was built over the loaded model
C8_Witness ==
    /\ Built
    /\ renderer.via = "ModelRenderer"
    /\ renderer.model = loaded.model
    /\ Len(Pipeline.buffers) = 2

(* C9: create_render_pipeline attaches a depth-stencil state with depth    *)
(* writes enabled and comparison "less" exactly when a depth format is     *)
(* supplied; the rest of the configuration is the same for all inputs:     *)
(* triangle list, counter-clockwise front face, back-face culling, fill,   *)
(* sample count 1, full write mask, replace blending.                      *)
C9_DepthStencilAndFixedState ==
    Built =>
        /\ IsSome(renderer.depth_format) =>
             /\ IsSome(Pipeline.depth_stencil)
             /\ Pipeline.depth_stencil[1].format = renderer.depth_format[1]
             /\ Pipeline.depth_stencil[1].depth_write_enabled
             /\ Pipeline.depth_stencil[1].depth_compare = "Less"
        /\ renderer.depth_format = None => Pipeline.depth_stencil = None
        /\ Pipeline.fixed.primitive.topology = "TriangleList"
        /\ Pipeline.fixed.primitive.front_face = "Ccw"
        /\ Pipeline.fixed.primitive.cull_mode = Some("Back")
        /\ Pipeline.fixed.primitive.polygon_mode = "Fill"
        /\ Pipeline.fixed.multisample.count = 1
        /\ Pipeline.fixed.write_mask = "ALL"
        /\ Pipeline.fixed.blend =
             Some([alpha |-> [src_factor |-> "One", dst_factor |-> "Zero", operation |-> "Add"],
                   color |-> [src_factor |-> "One", dst_factor |-> "Zero", operation |-> "Add"]])

\* a pipeline was built without a depth format
C9_Witness ==
    /\ Built
    /\ renderer.via = "create_render_pipeline"
    /\ renderer.depth_format = None
    /\ Pipeline.depth_stencil = None

Calls == lastOp.calls
BindCmds(cmds) == SelectSeq(cmds, LAMBDA c : c.cmd = "set_bind_group")
DrawCmds(cmds) == SelectSeq(cmds, LAMBDA c : c.cmd = "draw_indexed")

\* 1 when the call was given a material bind group, else 0
MaterialSlots(call) == IF IsSome(call.material_bind_group) THEN 1 ELSE 0

\* the (slot, group) pairs a command sequence binds
Bound(cmds) ==
    LET b == BindCmds(cmds) IN {<<b[x].index, b[x].group>> : x \in 1..Len(b)}

(* C1: every call of draw_mesh_instanced with k auxiliary groups binds the *)
(* material, if supplied, at slot 0 and auxiliary group i at slot 1 + i;   *)
(* without a material it binds auxiliary group i at slot i; it binds       *)
(* nothing at any other slot.                                              *)
C1_SlotAssignment ==
    \A n \in 1..Len(Calls) :
        LET call == Calls[n]
            k == Len(call.bind_groups)
        IN  IF IsSome(call.material_bind_group)
            THEN /\ Len(BindCmds(call.cmds)) = k + 1
                 /\ Bound(call.cmds) =
                      {<<0, call.material_bind_group[1]>>}
                        \cup {<<1 + i, call.bind_groups[i + 1]>> : i \in 0..(k - 1)}
            ELSE /\ Len(BindCmds(call.cmds)) = k
                 /\ Bound(call.cmds) = {<<i, call.bind_groups[i + 1]>> : i \in 0..(k - 1)}

\* a single-mesh draw with a material and two auxiliary groups
C1_Witness ==
    /\ lastOp.op = "draw_mesh_instanced"
    /\ IsSome(lastOp.material_bind_group)
    /\ Len(lastOp.bind_groups) = 2
    /\ Len(Calls) = 1

\* the number of leading meshes whose material index is in range
RECURSIVE DrawablePrefix(_, _)
DrawablePrefix(model, j) ==
    IF j > Len(model.meshes) \/ model.meshes[j].material >= Len(model.materials)
    THEN j - 1
    ELSE DrawablePrefix(model, j + 1)

\* the calls are single-mesh draws of the first n meshes, in order, each
\* with its material's bind group and the caller's range and groups
DrawsFirst(n) ==
    /\ Len(Calls) = n
    /\ Len(DrawCmds(CallCmds(Calls))) = n
    /\ \A j \in 1..n :
         /\ Calls[j].mesh = Model.meshes[j]
         /\ Calls[j].material_bind_group =
              Some(Model.materials[Model.meshes[j].material + 1].bind_group)
         /\ Calls[j].instances = lastOp.instances
         /\ Calls[j].bind_groups = lastOp.bind_groups

(* C3 as stated: draw_model_instanced on a model with n meshes issues      *)
(* exactly n single-mesh instanced draws, in mesh order, the j-th with     *)
(* mesh j, its material's bind group, and the caller's instance range and  *)
(* auxiliary list.                                                         *)
C3_DrawsEveryMesh ==
    lastOp.op = "draw_model_instanced" => DrawsFirst(Len(Model.meshes))

(* C3 amended: draw_model_instanced issues such draws for the leading      *)
(* meshes whose material index is in range, in mesh order; it issues all n *)
(* exactly when every index is in range, and otherwise panics at the first *)
(* mesh whose index is not.                                                *)
C3_DrawsDrawablePrefix ==
    lastOp.op = "draw_model_instanced" =>
        /\ DrawsFirst(DrawablePrefix(Model, 1))
        /\ lastOp.panicked <=> DrawablePrefix(Model, 1) < Len(Model.meshes)
        /\ (\A j \in 1..Len(Model.meshes) :
                Model.meshes[j].material < Len(Model.materials))
             => DrawsFirst(Len(Model.meshes))

\* two meshes with different materials drawn with a range other than 0..1
C3_Witness ==
    /\ lastOp.op = "draw_model_instanced"
    /\ ~lastOp.panicked
    /\ Len(Calls) = 2
    /\ Calls[1].material_bind_group # Calls[2].material_bind_group
    /\ lastOp.instances = <<1, 3>>
    /\ Len(lastOp.bind_groups) = 2

(* C4: draw_model records the commands draw_model_instanced records for    *)
(* the instance range 0..1, and draw_mesh the commands draw_mesh_instanced *)
(* records for 0..1 with the same mesh, material and auxiliary groups.     *)
C4_NonInstancedIsRangeZeroOne ==
    /\ lastOp.op = "draw_model" =>
         LET r == draw_model_instanced(Model, <<0, 1>>, lastOp.bind_groups)
         IN  /\ CallCmds(Calls) = CallCmds(r.calls)
             /\ lastOp.panicked = r.panicked
    /\ lastOp.op = "draw_mesh" =>
         CallCmds(Calls) =
            draw_mesh_instanced(lastOp.mesh[1], lastOp.material_bind_group, <<0, 1>>,
                                lastOp.bind_groups).cmds

\* draw_model drew two meshes with auxiliary groups
C4_Witness ==
    /\ lastOp.op = "draw_model"
    /\ Len(Calls) = 2
    /\ Len(lastOp.bind_groups) = 2
    /\ Len(DrawCmds(CallCmds(Calls))) = 2

\* the index array of the partition a mesh was loaded from
SourceIndices(mesh) == asset.models[mesh.geometry.index_buffer.of + 1].mesh.indices

(* C5: every call of draw_mesh_instanced records exactly one indexed draw, *)
(* as its last command, after binding the mesh's vertex buffer at slot 0,  *)
(* its index buffer as Uint32 and all bind groups; the draw covers indices *)
(* 0..element_count, base vertex 0 and the caller's instance range, where  *)
(* element_count is the length of the source partition's index array.      *)
C5_OneIndexedDraw ==
    \A n \in 1..Len(Calls) :
        LET call == Calls[n]
            cmds == call.cmds
            last == Len(cmds)
        IN  /\ Len(DrawCmds(cmds)) = 1
            /\ cmds[last] = DrawIndexed(<<0, Len(SourceIndices(call.mesh))>>, 0,
                                        call.instances)
            /\ \E v, x \in 1..(last - 1) :
                 /\ cmds[v] = SetVertexBuffer(0, BufferSlice(call.mesh.geometry.vertex_buffer))
                 /\ cmds[x] = SetIndexBuffer(BufferSlice(call.mesh.geometry.index_buffer),
                                             "Uint32")
            /\ Len(BindCmds(SubSeq(cmds, 1, last - 1))) =
                 Len(call.bind_groups) + MaterialSlots(call)

\* the one-triangle, one-material asset drawn once, not instanced
C5_Witness ==
    /\ asset = OneTriangleAsset
    /\ lastOp.op = "draw_mesh"
    /\ Len(Calls) = 1
    /\ DrawCmds(CallCmds(Calls)) = <<DrawIndexed(<<0, 3>>, 0, <<0, 1>>)>>

\* the group the commands leave at slot s of a pass that held `before`
LastBound(cmds, s, before) ==
    LET b == SelectSeq(cmds, LAMBDA c : c.cmd = "set_bind_group" /\ c.index = s)
    IN  IF b = <<>> THEN before ELSE Some(b[Len(b)].group)

\* one step of the pass: the bindings after a draw method, from those before
C10_Step ==
    LET calls == lastOp'.calls
        cmds == CallCmds(calls)
    IN  /\ loaded' = loaded
        /\ IF calls = <<>>
           THEN /\ pass'.vertex_buffers = pass.vertex_buffers
                /\ pass'.index_buffer = pass.index_buffer
           ELSE LET mesh == calls[Len(calls)].mesh
                IN  /\ pass'.vertex_buffers[0] = Some(BufferSlice(mesh.geometry.vertex_buffer))
                    /\ pass'.index_buffer =
                         Some([buffer |-> BufferSlice(mesh.geometry.index_buffer),
                               format |-> "Uint32"])
        /\ \A s \in Slots : pass'.bind_groups[s] = LastBound(cmds, s, pass.bind_groups[s])
        /\ lastOp'.op \in {"draw_mesh", "draw_mesh_instanced"} =>
             \A s \in Slots :
                s >= Len(lastOp'.bind_groups) + MaterialSlots(lastOp')
                  => pass'.bind_groups[s] = pass.bind_groups[s]

(* C10: after every draw method the pass holds at vertex-buffer slot 0 and *)
(* as index buffer the buffers of the last mesh drawn, and at every        *)
(* bind-group slot the group most recently bound to it; a single-mesh draw *)
(* with k auxiliary groups leaves every bind-group slot from k + 1 on (k   *)
(* on, without a material) unchanged; the Model is never changed.          *)
C10_PassBindings == [][C10_Step]_vars

\* a single-mesh draw without material and with one auxiliary group, on a
\* pass whose other slots hold groups bound by earlier draws
C10_Witness ==
    /\ lastOp.op \in {"draw_mesh", "draw_mesh_instanced"}
    /\ lastOp.material_bind_group = None
    /\ Len(lastOp.bind_groups) = 1
    /\ pass.bind_groups[0] = Some(AuxGroup(0))
    /\ pass.bind_groups[1] = Some(AuxGroup(0))
    /\ pass.bind_groups[2] = Some(AuxGroup(1))

====
